---------------------------- MODULE Spec2Model ----------------------------
(***************************************************************************)
(* Cyphernote editor (src/src/App.tsx, lines 1-427): the undo/redo history *)
(* engine, the list-aware key handler, the deferred caret writes and the   *)
(* scrambled overlay.                                                      *)
(*                                                                         *)
(* A string is a sequence of characters; a character is a one-element      *)
(* string ("u2022" stands for the bullet glyph U+2022).  Offsets are       *)
(* 0-based as in JavaScript; sequences are 1-based as in TLA+.             *)
(***************************************************************************)
EXTENDS Integers, Sequences, FiniteSets, TLC

VARIABLES
    text,            \* useState('')            App.tsx:5
    isRevealed,      \* useState(false)         App.tsx:6
    undoStack,       \* useState<string[]>([])  App.tsx:7
    redoStack,       \* useState<string[]>([])  App.tsx:8
    selectionStart,  \* textareaRef.current.selectionStart (the caret)
    timers,          \* pending setTimeout(..., 0) callbacks, oldest first
    event,           \* the event handled by the last step, with the
                     \* history it found
    script,          \* scripted sessions only: the values typed so far
    undos,           \* scripted sessions only: undo() calls made so far
    overlay,         \* overlay sessions only: the scrambled lines the
                     \* overlay shows (App.tsx:394-402), <<>> when none
    surface          \* the value the textarea shows (App.tsx:384-387)

vars == <<text, isRevealed, undoStack, redoStack, selectionStart, timers,
          event, script, undos, overlay, surface>>

\* the Buffer and the two stacks, as one value
History == [text |-> text, undoStack |-> undoStack, redoStack |-> redoStack]

-----------------------------------------------------------------------------
(* Bounds of the model.                                                    *)

\* deepest history (Undo Stack + Redo Stack) a recording operation may extend
MaxHist == 2
\* longest scripted run of typed changes
MaxScript == 3
\* longest run of content characters on the line of a key-handler input
MaxContent == 1
\* most setTimeout callbacks pending at once in a surface session
MaxTimers == 2

-----------------------------------------------------------------------------
(* Characters and JavaScript string primitives.                            *)

NL == "\n"
TAB == "\t"
BulletGlyph == "u2022"

Min(a, b) == IF a < b THEN a ELSE b
Max(a, b) == IF a > b THEN a ELSE b

\* String.prototype.substring(start, end): arguments clamped to
\* [0, length] and swapped when start > end
Substring(s, start, end) ==
    LET a == Min(Max(start, 0), Len(s))
        b == Min(Max(end, 0), Len(s))
    IN  SubSeq(s, Min(a, b) + 1, Max(a, b))

\* String.prototype.substring(start)
SubstringFrom(s, start) == Substring(s, start, Len(s))

\* s.lastIndexOf('\n'): 0-based, -1 when absent
LastIndexOfNewline(s) ==
    LET hits == {i \in 1..Len(s) : s[i] = NL}
    IN  IF hits = {} THEN -1
        ELSE (CHOOSE i \in hits : \A j \in hits : j <= i) - 1

\* s.indexOf('\n'): 0-based, -1 when absent
IndexOfNewline(s) ==
    LET hits == {i \in 1..Len(s) : s[i] = NL}
    IN  IF hits = {} THEN -1
        ELSE (CHOOSE i \in hits : \A j \in hits : i <= j) - 1

\* the regular-expression class \s, over the characters of the model
SpaceClass == {" ", TAB, NL}
IsSpace(ch) == ch \in SpaceClass

\* the regular-expression class \d
DigitChars == <<"0", "1", "2", "3", "4", "5", "6", "7", "8", "9">>
DigitClass == {DigitChars[i] : i \in 1..10}
IsDigit(ch) == ch \in DigitClass
DigitVal(ch) == (CHOOSE i \in 1..10 : DigitChars[i] = ch) - 1

\* mutant of IsBulletGlyph: the plus sign is a bullet glyph too
IsBulletGlyphOrPlus(ch) == ch \in {"-", "*", "+", BulletGlyph}

\* the bullet class [\-\*•] of the key handler's patterns
IsBulletGlyph(ch) == ch \in {"-", "*", BulletGlyph}

\* length of the longest run of characters of the class cls that starts at
\* 0-based offset from (what a greedy \s* or \d+ consumes there)
RunLength(s, from, cls) ==
    CHOOSE n \in 0..(Len(s) - from) :
        /\ \A i \in 1..n : s[from + i] \in cls
        /\ (from + n = Len(s) \/ s[from + n + 1] \notin cls)

\* String.prototype.trim()
TrimStart(s) == SubstringFrom(s, RunLength(s, 0, SpaceClass))
RECURSIVE TrimEnd(_)
TrimEnd(s) ==
    IF s # <<>> /\ IsSpace(s[Len(s)])
    THEN TrimEnd(SubSeq(s, 1, Len(s) - 1))
    ELSE s
Trim(s) == TrimEnd(TrimStart(s))

\* parseInt(digits) for a non-empty run of decimal digits
RECURSIVE ParseInt(_)
ParseInt(digits) ==
    IF digits = <<>> THEN 0
    ELSE 10 * ParseInt(SubSeq(digits, 1, Len(digits) - 1))
         + DigitVal(digits[Len(digits)])

\* Number.prototype.toString() of a non-negative integer
RECURSIVE NumberToString(_)
NumberToString(n) ==
    IF n < 10 THEN <<DigitChars[n + 1]>>
    ELSE NumberToString(n \div 10) \o <<DigitChars[(n % 10) + 1]>>


-----------------------------------------------------------------------------
(* Line lookup and the list patterns of the key handler.                   *)

\* lineStartIndex of removeBullet, removeNumberedItem and getCurrentLine
LineStartIndex(t, cursorPosition) ==
    LET lastNewlineIndex ==
            LastIndexOfNewline(Substring(t, 0, cursorPosition))
    IN  IF lastNewlineIndex = -1 THEN 0 ELSE lastNewlineIndex + 1

\* lineEndIndex of getCurrentLine
LineEndIndex(t, cursorPosition) ==
    LET nextNewlineIndex ==
            IndexOfNewline(SubstringFrom(t, cursorPosition))
    IN  IF nextNewlineIndex = -1 THEN Len(t)
        ELSE cursorPosition + nextNewlineIndex

getCurrentLine(t, cursorPosition) ==
    Substring(t, LineStartIndex(t, cursorPosition),
                 LineEndIndex(t, cursorPosition))

\* currentLine.match(/^(\s*)([\-\*•])(\s+)/): ok is FALSE for null
bulletMatch(line) ==
    LET i == RunLength(line, 0, SpaceClass)
        hasGlyph == i < Len(line) /\ IsBulletGlyph(line[i + 1])
        k == IF hasGlyph THEN RunLength(line, i + 1, SpaceClass) ELSE 0
    IN  IF hasGlyph /\ k >= 1
        THEN [ok |-> TRUE,
              indent |-> SubSeq(line, 1, i),
              bullet |-> <<line[i + 1]>>,
              space |-> SubSeq(line, i + 2, i + 1 + k)]
        ELSE [ok |-> FALSE, indent |-> <<>>, bullet |-> <<>>, space |-> <<>>]

\* currentLine.match(/^(\s*)(\d+)(\.\s+)/): ok is FALSE for null
numberMatch(line) ==
    LET i == RunLength(line, 0, SpaceClass)
        d == RunLength(line, i, DigitClass)
        hasDot == d >= 1 /\ i + d < Len(line) /\ line[i + d + 1] = "."
        k == IF hasDot THEN RunLength(line, i + d + 1, SpaceClass) ELSE 0
    IN  IF hasDot /\ k >= 1
        THEN [ok |-> TRUE,
              indent |-> SubSeq(line, 1, i),
              number |-> SubSeq(line, i + 1, i + d),
              suffix |-> SubSeq(line, i + d + 1, i + d + 1 + k)]
        ELSE [ok |-> FALSE, indent |-> <<>>, number |-> <<>>, suffix |-> <<>>]

\* currentLine.trim() === `${bullet}${space.trimEnd()}`
IsEmptyBullet(line, m) == Trim(line) = m.bullet \o TrimEnd(m.space)

\* currentLine.trim() === `${number}${suffix.trimEnd()}`
IsEmptyNumber(line, m) == Trim(line) = m.number \o TrimEnd(m.suffix)

-----------------------------------------------------------------------------
(* The editing surface.                                                    *)

\* The textarea is controlled (value={text}): when a render hands it a
\* value other than the one it shows, the caret moves to the end of the
\* new value; otherwise the caret stays.
SurfaceCaret(newText) ==
    IF newText = surface THEN selectionStart ELSE Len(newText)

\* the render that follows a handler's state updates, within the task of
\* the event: the textarea is given the new Buffer
FlushSync ==
    /\ surface' = text'
    /\ selectionStart' = SurfaceCaret(text')

\* the user's edit of the textarea that raises a change event: the
\* textarea shows value, with the caret after the typed characters
Typed(value) ==
    /\ surface' = value
    /\ selectionStart' = Len(value)

\* setTimeout(callback, 0): the callback joins the timer queue
Schedule(offset) == Append(timers, offset)

-----------------------------------------------------------------------------
(* History engine.                                                         *)

\* mutant of PushUndo: the snapshot is added at the bottom of the stack
PushUndoAtBottom == undoStack \o <<text>>

\* [text, ...undoStack]
PushUndo == <<text>> \o undoStack

\* mutant of PushRedo: the pushed snapshot replaces the stack
PushRedoForgetsRest == <<text>>

\* mutant of PushRedo: the snapshot is added at the bottom of the stack
PushRedoAtBottom == redoStack \o <<text>>

\* [text, ...redoStack]
PushRedo == <<text>> \o redoStack

\* mutant of RedoAfterChange: only the top of the Redo Stack is dropped
RedoAfterChangeDropsTop ==
    IF redoStack = <<>> THEN <<>> ELSE Tail(redoStack)

\* the Redo Stack a typed change leaves: setRedoStack([])
RedoAfterChange == <<>>

\* handleTextChange with e.target.value = value
handleTextChange(value) ==
    /\ undoStack' = PushUndo
    /\ redoStack' = RedoAfterChange
    /\ text' = value

\* mutant of handleUndo: the Buffer it replaces is not pushed onto the
\* Redo Stack
handleUndoDropsBuffer ==
    IF Len(undoStack) > 0
    THEN /\ undoStack' = Tail(undoStack)
         /\ text' = undoStack[1]
         /\ UNCHANGED redoStack
    ELSE UNCHANGED <<text, undoStack, redoStack>>

handleUndo ==
    IF Len(undoStack) > 0
    THEN LET previousText == undoStack[1]
             newUndoStack == Tail(undoStack)
         IN  /\ redoStack' = PushRedo
             /\ undoStack' = newUndoStack
             /\ text' = previousText
    ELSE UNCHANGED <<text, undoStack, redoStack>>

\* mutant of handleRedo: the snapshot it restores stays on the Redo Stack
handleRedoKeepsTop ==
    IF Len(redoStack) > 0
    THEN /\ undoStack' = PushUndo
         /\ text' = redoStack[1]
         /\ UNCHANGED redoStack
    ELSE UNCHANGED <<text, undoStack, redoStack>>

handleRedo ==
    IF Len(redoStack) > 0
    THEN LET nextText == redoStack[1]
             newRedoStack == Tail(redoStack)
         IN  /\ undoStack' = PushUndo
             /\ redoStack' = newRedoStack
             /\ text' = nextText
    ELSE UNCHANGED <<text, undoStack, redoStack>>

\* mutant of handleClear: the Redo Stack is not discarded
handleClearKeepsRedo ==
    /\ text' = <<>>
    /\ undoStack' = <<>>
    /\ UNCHANGED redoStack

\* mutant of handleClear: the Buffer is kept
handleClearKeepsBuffer ==
    /\ undoStack' = <<>>
    /\ redoStack' = <<>>
    /\ UNCHANGED text

handleClear ==
    /\ text' = <<>>
    /\ undoStack' = <<>>
    /\ redoStack' = <<>>

-----------------------------------------------------------------------------
(* List-aware line editor.                                                 *)

\* mutant of BulletInserted: the token is a hyphen and a space
BulletInsertedHyphen(cursorPosition) ==
    Substring(text, 0, cursorPosition) \o <<"-", " ">>
        \o SubstringFrom(text, cursorPosition)

\* newText of insertBulletPoint
BulletInserted(cursorPosition) ==
    Substring(text, 0, cursorPosition) \o <<BulletGlyph, " ">>
        \o SubstringFrom(text, cursorPosition)

\* newText of insertNumberedItem
NumberInserted(cursorPosition) ==
    Substring(text, 0, cursorPosition) \o <<"1", ".", " ">>
        \o SubstringFrom(text, cursorPosition)

\* newText of continueBulletList
BulletContinued(cursorPosition, indent, bullet, space) ==
    Substring(text, 0, cursorPosition)
        \o <<NL>> \o indent \o bullet \o space
        \o SubstringFrom(text, cursorPosition)

\* mutant of BulletContinuedCaret: the inserted newline is not counted
BulletContinuedCaretNoNewline(cursorPosition, indent, bullet, space) ==
    cursorPosition + Len(indent) + Len(bullet) + Len(space)

\* newCursorPosition of continueBulletList
BulletContinuedCaret(cursorPosition, indent, bullet, space) ==
    cursorPosition + 1 + Len(indent) + Len(bullet) + Len(space)

\* newText of continueNumberedList; number is the parsed integer
NumberContinued(cursorPosition, indent, number, suffix) ==
    LET nextNumber == number + 1
    IN  Substring(text, 0, cursorPosition)
            \o <<NL>> \o indent \o NumberToString(nextNumber) \o suffix
            \o SubstringFrom(text, cursorPosition)

\* mutant of NumberContinuedCaret: the width of the number on the line is
\* counted, not that of the number inserted
NumberContinuedCaretOldWidth(cursorPosition, indent, number, suffix) ==
    cursorPosition + 1 + Len(indent) + Len(NumberToString(number))
        + Len(suffix)

\* newCursorPosition of continueNumberedList
NumberContinuedCaret(cursorPosition, indent, number, suffix) ==
    LET nextNumber == number + 1
    IN  cursorPosition + 1 + Len(indent) + Len(NumberToString(nextNumber))
            + Len(suffix)

\* mutant of MarkerRemoved: the whole line is deleted, not only the part
\* before the caret
MarkerRemovedWholeLine(cursorPosition) ==
    Substring(text, 0, LineStartIndex(text, cursorPosition))
        \o SubstringFrom(text, LineEndIndex(text, cursorPosition))

\* newText of removeBullet and of removeNumberedItem
MarkerRemoved(cursorPosition) ==
    Substring(text, 0, LineStartIndex(text, cursorPosition))
        \o SubstringFrom(text, cursorPosition)

\* cursorPosition is the textarea.selectionStart the helper reads
insertBulletPoint(cursorPosition) ==
    LET newText == BulletInserted(cursorPosition)
    IN  /\ undoStack' = PushUndo
        /\ text' = newText
        /\ timers' = Schedule(cursorPosition + 2)
        /\ UNCHANGED redoStack

\* cursorPosition is the textarea.selectionStart the helper reads
insertNumberedItem(cursorPosition) ==
    LET newText == NumberInserted(cursorPosition)
    IN  /\ undoStack' = PushUndo
        /\ text' = newText
        /\ timers' = Schedule(cursorPosition + 3)
        /\ UNCHANGED redoStack

\* mutant of continueBulletList: the snapshot pushed is the new Buffer
continueBulletListPushesNew(cursorPosition, indent, bullet, space) ==
    LET newText == BulletContinued(cursorPosition, indent, bullet, space)
    IN  /\ undoStack' = <<newText>> \o undoStack
        /\ text' = newText
        /\ timers' = Schedule(BulletContinuedCaret(cursorPosition, indent,
                                                   bullet, space))
        /\ UNCHANGED redoStack

continueBulletList(cursorPosition, indent, bullet, space) ==
    LET newText == BulletContinued(cursorPosition, indent, bullet, space)
    IN  /\ undoStack' = PushUndo
        /\ text' = newText
        /\ timers' = Schedule(BulletContinuedCaret(cursorPosition, indent,
                                                   bullet, space))
        /\ UNCHANGED redoStack

continueNumberedList(cursorPosition, indent, number, suffix) ==
    LET newText == NumberContinued(cursorPosition, indent, number, suffix)
    IN  /\ undoStack' = PushUndo
        /\ text' = newText
        /\ timers' = Schedule(NumberContinuedCaret(cursorPosition, indent,
                                                   number, suffix))
        /\ UNCHANGED redoStack

removeBullet(cursorPosition) ==
    LET newText == MarkerRemoved(cursorPosition)
    IN  /\ undoStack' = PushUndo
        /\ text' = newText
        /\ timers' = Schedule(LineStartIndex(text, cursorPosition))
        /\ UNCHANGED redoStack

removeNumberedItem(cursorPosition) ==
    LET newText == MarkerRemoved(cursorPosition)
    IN  /\ undoStack' = PushUndo
        /\ text' = newText
        /\ timers' = Schedule(LineStartIndex(text, cursorPosition))
        /\ UNCHANGED redoStack

\* e.key.toLowerCase(), over the keys of the model
ToLowerCase(key) ==
    CASE key = "B" -> "b"
      [] key = "N" -> "n"
      [] key = "H" -> "h"
      [] OTHER -> key

\* which branch of handleKeyDown a key event takes; cursorPosition is
\* e.currentTarget.selectionStart
KeyBranch(key, altKey, shiftKey, cursorPosition) ==
    LET currentLine == getCurrentLine(text, cursorPosition)
        bm == bulletMatch(currentLine)
        nm == numberMatch(currentLine)
    IN  IF altKey /\ ToLowerCase(key) = "b" THEN "insertBulletPoint"
        ELSE IF altKey /\ ToLowerCase(key) = "n" THEN "insertNumberedItem"
        ELSE IF key = "Enter" /\ ~shiftKey
        THEN IF bm.ok
             THEN IF IsEmptyBullet(currentLine, bm)
                  THEN "removeBullet" ELSE "continueBulletList"
             ELSE IF nm.ok
             THEN IF IsEmptyNumber(currentLine, nm)
                  THEN "removeNumberedItem" ELSE "continueNumberedList"
             ELSE "none"
        ELSE "none"

handleKeyDown(key, altKey, shiftKey, cursorPosition) ==
    LET currentLine == getCurrentLine(text, cursorPosition)
        bm == bulletMatch(currentLine)
        nm == numberMatch(currentLine)
        branch == KeyBranch(key, altKey, shiftKey, cursorPosition)
    IN  CASE branch = "insertBulletPoint" ->
                insertBulletPoint(cursorPosition)
          [] branch = "insertNumberedItem" ->
                insertNumberedItem(cursorPosition)
          [] branch = "removeBullet" -> removeBullet(cursorPosition)
          [] branch = "continueBulletList" ->
                continueBulletList(cursorPosition, bm.indent, bm.bullet,
                                   bm.space)
          [] branch = "removeNumberedItem" ->
                removeNumberedItem(cursorPosition)
          [] branch = "continueNumberedList" ->
                continueNumberedList(cursorPosition, nm.indent,
                                     ParseInt(nm.number), nm.suffix)
          [] OTHER ->
                UNCHANGED <<text, undoStack, redoStack, timers>>

\* mutant of handleGlobalKeyDown: any key pressed with Alt toggles
handleGlobalKeyDownAnyAlt(key, altKey) ==
    isRevealed' = IF altKey THEN ~isRevealed ELSE isRevealed

\* the window listener of the visibility shortcut
handleGlobalKeyDown(key, altKey) ==
    isRevealed' = IF altKey /\ ToLowerCase(key) = "h"
                  THEN ~isRevealed ELSE isRevealed

-----------------------------------------------------------------------------
(* Events.  event records the event the last step handled: its kind, the   *)
(* key pressed or button clicked, the handler or helper that ran (op), the *)
(* caret that handler read (-1 when it read none), the value a text change *)
(* delivered and the history the handler found (before); for undo() and    *)
(* redo() also the handler or helper of the event handled just before,     *)
(* when that one wrote the history (after).                                *)

ListEditOps ==
    {"insertBulletPoint", "insertNumberedItem", "continueBulletList",
     "continueNumberedList", "removeBullet", "removeNumberedItem"}

HistoryOps ==
    ListEditOps \cup {"handleTextChange", "handleUndo", "handleClear"}

Ev(type, key, altKey, shiftKey, op, caret) ==
    [type |-> type, key |-> key, altKey |-> altKey, shiftKey |-> shiftKey,
     op |-> op, caret |-> caret, value |-> <<>>, before |-> History,
     after |-> IF op \in {"handleUndo", "handleRedo"}
                  /\ event.op \in HistoryOps
               THEN event.op ELSE ""]

\* a text-change event delivering value
ChangeEv(value) ==
    [Ev("change", "", FALSE, FALSE, "handleTextChange", -1)
        EXCEPT !.value = value]

Click(button, op, caret) == Ev("click", button, FALSE, FALSE, op, caret)

\* values a text-change event may deliver (e.target.value)
TypedValues ==
    { <<>>,
      <<"-", " ", "a">>,
      <<"1", ".", " ", "a">> }

\* key presses the textarea may receive
KeyEvents ==
    { [key |-> "b", altKey |-> TRUE, shiftKey |-> FALSE],
      [key |-> "n", altKey |-> TRUE, shiftKey |-> FALSE],
      [key |-> "h", altKey |-> TRUE, shiftKey |-> FALSE],
      [key |-> "Enter", altKey |-> FALSE, shiftKey |-> FALSE],
      [key |-> "Enter", altKey |-> FALSE, shiftKey |-> TRUE],
      [key |-> "x", altKey |-> FALSE, shiftKey |-> FALSE] }

\* the caret a key handler reads: Enter without Shift reads
\* e.currentTarget.selectionStart, the insert helpers read
\* textarea.selectionStart, the other branches read none
KeyCaret(key, altKey, shiftKey, cursorPosition) ==
    IF \/ KeyBranch(key, altKey, shiftKey, cursorPosition) # "none"
       \/ (key = "Enter" /\ ~shiftKey)
    THEN cursorPosition ELSE -1

-----------------------------------------------------------------------------
(* A free editing session.  The user may move the caret before any event,  *)
(* so the caret a handler reads is an input of the event; selectionStart   *)
(* keeps the caret as the surface or a deferred callback last placed it.   *)

\* carets tried in a free session: the start and the end of the Buffer
\* (a keyed session tries every caret of every line)
Carets(t) == {0, Len(t)}

\* a list edit of a free session finds room for one more snapshot, and
\* the deferred callback of the list edit before it has run
CanEdit ==
    /\ Len(undoStack) + Len(redoStack) < MaxHist
    /\ timers = <<>>

Init ==
    /\ text = <<>>
    /\ isRevealed = FALSE
    /\ undoStack = <<>>
    /\ redoStack = <<>>
    /\ selectionStart = 0
    /\ timers = <<>>
    /\ event = [type |-> "init", key |-> "", altKey |-> FALSE,
                shiftKey |-> FALSE, op |-> "none", caret |-> -1,
                value |-> <<>>,
                before |-> [text |-> <<>>, undoStack |-> <<>>,
                            redoStack |-> <<>>],
                after |-> ""]
    /\ script = <<>>
    /\ undos = 0
    /\ overlay = <<>>
    /\ surface = text

\* onChange={handleTextChange}
Change ==
    \E value \in TypedValues :
        /\ Len(undoStack) < MaxHist
        /\ handleTextChange(value)
        /\ Typed(value)
        /\ event' = ChangeEv(value)
        /\ UNCHANGED <<isRevealed, timers, script, undos, overlay>>

\* onClick={handleUndo}
Undo ==
    /\ handleUndo
    /\ FlushSync
    /\ event' = Click("undo", "handleUndo", -1)
    /\ UNCHANGED <<isRevealed, timers, script, undos, overlay>>

\* onClick={handleRedo}
Redo ==
    /\ handleRedo
    /\ FlushSync
    /\ event' = Click("redo", "handleRedo", -1)
    /\ UNCHANGED <<isRevealed, timers, script, undos, overlay>>

\* onClick={handleClear}
Clear ==
    /\ handleClear
    /\ FlushSync
    /\ event' = Click("clear", "handleClear", -1)
    /\ UNCHANGED <<isRevealed, timers, script, undos, overlay>>

\* onClick={insertBulletPoint}
ClickBullet ==
    \E cursorPosition \in Carets(text) :
        /\ CanEdit
        /\ insertBulletPoint(cursorPosition)
        /\ FlushSync
        /\ event' = Click("bullet", "insertBulletPoint", cursorPosition)
        /\ UNCHANGED <<isRevealed, script, undos, overlay>>

\* onClick={insertNumberedItem}
ClickNumbered ==
    \E cursorPosition \in Carets(text) :
        /\ CanEdit
        /\ insertNumberedItem(cursorPosition)
        /\ FlushSync
        /\ event' = Click("numbered", "insertNumberedItem", cursorPosition)
        /\ UNCHANGED <<isRevealed, script, undos, overlay>>

\* onKeyDown={handleKeyDown}, then the window listener
KeyDown ==
    \E e \in KeyEvents :
        \E cursorPosition \in Carets(text) :
            /\ KeyBranch(e.key, e.altKey, e.shiftKey, cursorPosition)
                   # "none" => CanEdit
            /\ handleKeyDown(e.key, e.altKey, e.shiftKey, cursorPosition)
            /\ FlushSync
            /\ handleGlobalKeyDown(e.key, e.altKey)
            /\ event' = Ev("keydown", e.key, e.altKey, e.shiftKey,
                           KeyBranch(e.key, e.altKey, e.shiftKey,
                                     cursorPosition),
                           KeyCaret(e.key, e.altKey, e.shiftKey,
                                    cursorPosition))
            /\ UNCHANGED <<script, undos, overlay>>

\* onClick={() => setIsRevealed(!isRevealed)}
ToggleReveal ==
    /\ isRevealed' = ~isRevealed
    /\ event' = Click("reveal", "setIsRevealed", -1)
    /\ UNCHANGED <<text, undoStack, redoStack, selectionStart, timers,
                   script, undos, overlay,
                   surface>>

\* mutant of Copy: a rejected clipboard write empties the Buffer
CopyFailureClears ==
    \E outcome \in {"resolved", "rejected"} :
        /\ event' = Click("copy", outcome, -1)
        /\ text' = IF outcome = "rejected" THEN <<>> ELSE text
        /\ UNCHANGED <<isRevealed, undoStack, redoStack,
                       selectionStart, timers, script, undos, overlay,
                   surface>>

\* onClick={handleCopy}; the clipboard write resolves, or rejects and is
\* caught
Copy ==
    \E outcome \in {"resolved", "rejected"} :
        /\ event' = Click("copy", outcome, -1)
        /\ UNCHANGED <<text, isRevealed, undoStack, redoStack,
                       selectionStart, timers, script, undos, overlay,
                   surface>>

\* onClick={handleSave}
Save ==
    /\ event' = Click("save", "handleSave", -1)
    /\ UNCHANGED <<text, isRevealed, undoStack, redoStack, selectionStart,
                   timers, script, undos, overlay,
                   surface>>

\* the oldest pending setTimeout callback runs; the surface keeps the
\* selection inside its value
RunTimer ==
    /\ timers # <<>>
    /\ selectionStart' = Min(Head(timers), Len(text))
    /\ timers' = Tail(timers)
    /\ event' = Ev("timeout", "", FALSE, FALSE, "none", -1)
    /\ UNCHANGED <<text, isRevealed, undoStack, redoStack, script, undos,
                   overlay, surface>>

Next ==
    \/ Change
    \/ Undo
    \/ Redo
    \/ Clear
    \/ ClickBullet
    \/ ClickNumbered
    \/ KeyDown
    \/ ToggleReveal
    \/ Copy
    \/ Save
    \/ RunTimer

Spec == Init /\ [][Next]_vars

-----------------------------------------------------------------------------
(* A scripted session: typed changes b1..bn from the initial state, then   *)
(* undo() calls only.                                                      *)

ScriptType ==
    \E value \in TypedValues :
        /\ undos = 0
        /\ Len(script) < MaxScript
        /\ handleTextChange(value)
        /\ Typed(value)
        /\ script' = Append(script, value)
        /\ event' = ChangeEv(value)
        /\ UNCHANGED <<isRevealed, timers, undos, overlay>>

ScriptUndo ==
    /\ undos < Len(script)
    /\ handleUndo
    /\ FlushSync
    /\ undos' = undos + 1
    /\ event' = Click("undo", "handleUndo", -1)
    /\ UNCHANGED <<isRevealed, timers, script, overlay>>

ScriptNext == ScriptType \/ ScriptUndo

SpecScript == Init /\ [][ScriptNext]_vars

-----------------------------------------------------------------------------
(* A keyed session: one typed change delivered a Buffer, the user put the  *)
(* caret somewhere in it, and the textarea receives one key press; the     *)
(* deferred callback of that key press then runs.                          *)

\* runs of 0..n content characters
ContentRuns(n) == {[i \in 1..k |-> "a"] : k \in 0..n}

KeyIndents == {<<>>, <<" ">>}

KeyMarkers ==
    { <<>>, <<"-">>, <<"*">>, <<BulletGlyph>>, <<"+">>,
      <<"1">>, <<"2", ".">>, <<"9", ".">>, <<"0", "9", ".">>,
      <<"9", "9", ".">> }

KeySpacings == {<<>>, <<" ">>, <<" ", TAB>>}

\* the line the caret is meant for
KeyLines ==
    { i \o m \o sp \o c :
        i \in KeyIndents, m \in KeyMarkers, sp \in KeySpacings,
        c \in ContentRuns(MaxContent) }

\* lines above and below it (each with its newline)
KeyAbove == {<<>>, <<"5", ".", " ", "b", NL>>}
KeyBelow == {<<>>, <<NL, "-", " ", "c">>}

KeyTexts == {a \o l \o b : a \in KeyAbove, l \in KeyLines, b \in KeyBelow}

\* the state a typed change from the initial state leaves, with the caret
\* where the user put it
KeyedInit ==
    /\ text \in KeyTexts
    /\ selectionStart \in 0..Len(text)
    /\ isRevealed = FALSE
    /\ undoStack = << <<>> >>
    /\ redoStack = <<>>
    /\ timers = <<>>
    /\ event = [type |-> "change", key |-> "", altKey |-> FALSE,
                shiftKey |-> FALSE, op |-> "handleTextChange", caret |-> -1,
                value |-> text,
                before |-> [text |-> <<>>, undoStack |-> <<>>,
                            redoStack |-> <<>>],
                after |-> ""]
    /\ script = <<>>
    /\ undos = 0
    /\ overlay = <<>>
    /\ surface = text

\* key presses of a keyed session: those of a free session, the
\* shortcuts with Shift held (upper-case e.key) and Enter with Alt held
KeyedEvents ==
    KeyEvents \cup
    { [key |-> "B", altKey |-> TRUE, shiftKey |-> TRUE],
      [key |-> "N", altKey |-> TRUE, shiftKey |-> TRUE],
      [key |-> "b", altKey |-> FALSE, shiftKey |-> FALSE],
      [key |-> "Enter", altKey |-> TRUE, shiftKey |-> FALSE] }

\* onKeyDown={handleKeyDown}, then the window listener
KeyedKeyDown ==
    \E e \in KeyedEvents :
        /\ event.type = "change"
        /\ handleKeyDown(e.key, e.altKey, e.shiftKey, selectionStart)
        /\ FlushSync
        /\ handleGlobalKeyDown(e.key, e.altKey)
        /\ event' = Ev("keydown", e.key, e.altKey, e.shiftKey,
                       KeyBranch(e.key, e.altKey, e.shiftKey,
                                 selectionStart),
                       KeyCaret(e.key, e.altKey, e.shiftKey, selectionStart))
        /\ UNCHANGED <<script, undos, overlay>>

KeyedNext == KeyedKeyDown \/ RunTimer

SpecKey == KeyedInit /\ [][KeyedNext]_vars

-----------------------------------------------------------------------------
(* Properties of the history engine.                                       *)

AllEmpty == text = <<>> /\ undoStack = <<>> /\ redoStack = <<>>

\* C1: a typed text change pushes the pre-change Buffer onto the top of
\* the Undo Stack, empties the Redo Stack whatever its depth was, and sets
\* Buffer to the value the change delivered.
C1_TypedChangeRecords ==
    event.op = "handleTextChange" =>
        /\ undoStack = <<event.before.text>> \o event.before.undoStack
        /\ redoStack = <<>>
        /\ text = event.value

\* a typed change arrived after two undo() calls: the Redo Stack it
\* emptied held two snapshots
C1_Witness ==
    /\ event.op = "handleTextChange"
    /\ Len(event.before.redoStack) > 1
    /\ text # event.before.text

\* C2: every list-editing operation leaves the Redo Stack empty.
C2_ListEditEmptiesRedo ==
    event.op \in ListEditOps => redoStack = <<>>

\* C3: undo() changes nothing when the Undo Stack is empty; otherwise it
\* removes the top snapshot S of the Undo Stack, pushes the pre-undo Buffer
\* onto the Redo Stack and sets Buffer to S, keeping the rest of both stacks.
C3_UndoContract ==
    event.op = "handleUndo" =>
        IF event.before.undoStack = <<>>
        THEN History = event.before
        ELSE /\ text = Head(event.before.undoStack)
             /\ undoStack = Tail(event.before.undoStack)
             /\ redoStack = <<event.before.text>> \o event.before.redoStack

\* an undo() that found snapshots below the top of the Undo Stack and
\* snapshots on the Redo Stack
C3_Witness ==
    /\ event.op = "handleUndo"
    /\ Len(event.before.undoStack) >= 1
    /\ Len(event.before.redoStack) >= 1
    /\ text # event.before.text

\* C4: redo() changes nothing when the Redo Stack is empty; otherwise it
\* removes the top snapshot S of the Redo Stack, pushes the pre-redo Buffer
\* onto the Undo Stack and sets Buffer to S, keeping the rest of both stacks.
C4_RedoContract ==
    event.op = "handleRedo" =>
        IF event.before.redoStack = <<>>
        THEN History = event.before
        ELSE /\ text = Head(event.before.redoStack)
             /\ redoStack = Tail(event.before.redoStack)
             /\ undoStack = <<event.before.text>> \o event.before.undoStack

\* a redo() that found snapshots on both stacks
C4_Witness ==
    /\ event.op = "handleRedo"
    /\ Len(event.before.redoStack) >= 1
    /\ Len(event.before.undoStack) >= 1
    /\ text # event.before.text

\* C5 as claimed: from every reachable state, undo() followed immediately
\* by redo() leaves Buffer and both stacks as they were before the undo().
C5_UndoRedoAnyState ==
    [][(event.op = "handleUndo" /\ event'.op = "handleRedo")
           => History' = event.before]_vars

\* C5, amended: from every reachable state whose Undo Stack is non-empty
\* or whose Redo Stack is empty, undo() followed immediately by redo()
\* leaves Buffer and both stacks as they were before the undo().
C5_UndoRedoRoundTrip ==
    [][(/\ event.op = "handleUndo"
        /\ event'.op = "handleRedo"
        /\ (event.before.undoStack # <<>> \/ event.before.redoStack = <<>>))
           => History' = event.before]_vars

\* a redo() right after an undo(); two snapshots are on the Undo Stack
\* again, so the undo() had popped one, and the Buffer changed back
C5_Witness ==
    /\ event.op = "handleRedo"
    /\ event.after = "handleUndo"
    /\ Len(undoStack) >= 2
    /\ text # event.before.text

RECURSIVE Reverse(_)
Reverse(s) == IF s = <<>> THEN <<>> ELSE Reverse(Tail(s)) \o <<Head(s)>>

\* C6 as claimed: after typed changes b1..bn from the initial state and n
\* undo() calls, Buffer and the Undo Stack are empty and the Redo Stack,
\* read from its top, holds bn, ..., b1.
C6_RedoHoldsReversedScript ==
    undos = Len(script) =>
        /\ text = <<>>
        /\ undoStack = <<>>
        /\ redoStack = Reverse(script)

\* C6, amended: after typed changes b1..bn from the initial state and n
\* undo() calls, Buffer and the Undo Stack are empty and the Redo Stack,
\* read from its top, holds b1, ..., bn (bn, the first snapshot undone, is
\* at the bottom).
C6_RedoHoldsScript ==
    undos = Len(script) =>
        /\ text = <<>>
        /\ undoStack = <<>>
        /\ redoStack = script

\* three different values typed, then three undo() calls
C6_Witness ==
    /\ undos = 3
    /\ Len(script) = 3
    /\ script[1] # script[2]
    /\ script[2] # script[3]
    /\ script[1] # script[3]

\* C7: clear() leaves Buffer and both stacks empty whatever they held, and
\* from there undo() and redo() change nothing, so no sequence of them
\* brings pre-clear content back.
C7_ClearNotUndoable ==
    /\ [](event.op = "handleClear" => AllEmpty)
    /\ [][(AllEmpty /\ event'.op \in {"handleUndo", "handleRedo"})
              => AllEmpty']_vars

\* a clear() that discarded a Buffer and snapshots on both stacks
C7_Witness ==
    /\ event.op = "handleClear"
    /\ event.before.text # <<>>
    /\ event.before.undoStack # <<>>
    /\ event.before.redoStack # <<>>

\* C8: a typed change or list edit pushes exactly one snapshot, the Buffer
\* it found, onto the Undo Stack, and an undo() issued right after it
\* restores that Buffer.
C8_OneUndoableStep ==
    /\ [](event.op \in ListEditOps \cup {"handleTextChange"}
            => undoStack = <<event.before.text>> \o event.before.undoStack)
    /\ [][(/\ event.op \in ListEditOps \cup {"handleTextChange"}
           /\ event'.op = "handleUndo")
              => text' = event.before.text]_vars

\* an undo() right after a list continuation: the continued Buffer is on
\* top of the Redo Stack and the Buffer is the item as typed
C8_Witness ==
    /\ event.op = "handleUndo"
    /\ event.after = "continueBulletList"
    /\ text = <<"-", " ", "a">>
    /\ redoStack # <<>>
    /\ Head(redoStack) = <<"-", " ", "a", NL, "-", " ">>

-----------------------------------------------------------------------------
(* Properties of the list-aware key handler, stated over a keyed session.  *)
(* The line and its parts are described here without the handler's own     *)
(* matching.                                                               *)

\* offset at which the line holding offset c of t starts
LineStartOf(t, c) ==
    CHOOSE s \in 0..c :
        /\ (s = 0 \/ t[s] = NL)
        /\ \A j \in (s + 1)..c : t[j] # NL

\* the line of t holding offset c: up to the next newline or the end
LineOf(t, c) ==
    LET s == LineStartOf(t, c)
        e == CHOOSE e \in c..Len(t) :
                 /\ (e = Len(t) \/ t[e + 1] = NL)
                 /\ \A j \in (c + 1)..e : t[j] # NL
    IN  SubSeq(t, s + 1, e)

AllSpaces(s) == \A j \in 1..Len(s) : s[j] \in {" ", TAB}

\* line = indent + glyph + spacing + rest: indent whitespace, glyph one of
\* - * and the bullet glyph, spacing non-empty whitespace, rest not
\* starting with whitespace; i = |indent|, k = |spacing|
IsBulletLine(line, i, k) ==
    /\ i + 1 + k <= Len(line)
    /\ k >= 1
    /\ AllSpaces(SubSeq(line, 1, i))
    /\ line[i + 1] \in {"-", "*", BulletGlyph}
    /\ AllSpaces(SubSeq(line, i + 2, i + 1 + k))
    /\ (i + 1 + k < Len(line) => line[i + 2 + k] \notin {" ", TAB})

\* line = indent + digits + period + spacing + rest; i = |indent|,
\* d = |digits|, k = |spacing|
IsNumberedLine(line, i, d, k) ==
    /\ i + d + 1 + k <= Len(line)
    /\ d >= 1
    /\ k >= 1
    /\ AllSpaces(SubSeq(line, 1, i))
    /\ \A j \in (i + 1)..(i + d) : line[j] \in
           {"0", "1", "2", "3", "4", "5", "6", "7", "8", "9"}
    /\ line[i + d + 1] = "."
    /\ AllSpaces(SubSeq(line, i + d + 2, i + d + 1 + k))
    /\ (i + d + 1 + k < Len(line) => line[i + d + 2 + k] \notin {" ", TAB})

\* the last event was Enter without Shift (and without a shortcut key)
IsPlainEnter(e) == e.type = "keydown" /\ e.key = "Enter" /\ ~e.shiftKey

\* C9: Enter at caret c on a bullet line (indent, glyph, spacing) that is
\* not an empty item makes Buffer = Buffer[0..c) + newline + indent + glyph
\* + spacing + Buffer[c..), and the deferred callback then puts the caret
\* at c + 1 + |indent| + 1 + |spacing|.
C9_BulletContinuation ==
    /\ [][IsPlainEnter(event') =>
            LET c == selectionStart
                line == LineOf(text, c)
            IN  \A i \in 0..Len(line) : \A k \in 1..Len(line) :
                  (IsBulletLine(line, i, k) /\ i + 1 + k < Len(line)) =>
                      /\ text' = SubSeq(text, 1, c) \o <<NL>>
                                   \o SubSeq(line, 1, i + 1 + k)
                                   \o SubSeq(text, c + 1, Len(text))
                      /\ timers' = <<c + 1 + i + 1 + k>>]_vars
    /\ [][(event.op = "continueBulletList" /\ event'.type = "timeout") =>
            /\ selectionStart' = Head(timers)
            /\ timers' = <<>>
            /\ text' = text]_vars

\* "- a" with the caret at its end became "- a", newline, "- ", and the
\* deferred callback has put the caret at the end, after the new marker
C9_Witness ==
    /\ event.type = "timeout"
    /\ event.before.text = <<"-", " ", "a", NL, "-", " ">>
    /\ event.before.undoStack = << <<"-", " ", "a">>, <<>> >>
    /\ text = event.before.text
    /\ selectionStart = 6

\* the number a run of decimal digits denotes
RECURSIVE NumeralValue(_)
NumeralValue(digits) ==
    IF digits = <<>> THEN 0
    ELSE LET last == digits[Len(digits)]
             v == CASE last = "0" -> 0 [] last = "1" -> 1 [] last = "2" -> 2
                    [] last = "3" -> 3 [] last = "4" -> 4 [] last = "5" -> 5
                    [] last = "6" -> 6 [] last = "7" -> 7 [] last = "8" -> 8
                    [] last = "9" -> 9
         IN  10 * NumeralValue(SubSeq(digits, 1, Len(digits) - 1)) + v

\* numeral is the decimal numeral of n: digits only, no leading zero
IsNumeralOf(numeral, n) ==
    /\ Len(numeral) >= 1
    /\ \A j \in 1..Len(numeral) : numeral[j] \in
           {"0", "1", "2", "3", "4", "5", "6", "7", "8", "9"}
    /\ (Len(numeral) > 1 => numeral[1] # "0")
    /\ NumeralValue(numeral) = n

\* C10: Enter at caret c on a numbered line (indent, number N, period +
\* spacing) that is not an empty item inserts at c a newline, the indent,
\* the decimal numeral of N + 1 and the same suffix, whatever the other
\* lines hold and leaving them as they are, and the deferred callback then
\* puts the caret right after the inserted marker.
C10_NumberedContinuation ==
    /\ [][IsPlainEnter(event') =>
            LET c == selectionStart
                line == LineOf(text, c)
            IN  \A i \in 0..Len(line) : \A d \in 1..Len(line) :
                  \A k \in 1..Len(line) :
                    (/\ IsNumberedLine(line, i, d, k)
                     /\ i + d + 1 + k < Len(line)) =>
                        \E m \in 1..(d + 1) :
                            LET n == NumeralValue(SubSeq(line, i + 1, i + d))
                                numeral == SubSeq(text', c + 1 + i + 1,
                                                  c + 1 + i + m)
                            IN  /\ IsNumeralOf(numeral, n + 1)
                                /\ text' =
                                     SubSeq(text, 1, c) \o <<NL>>
                                       \o SubSeq(line, 1, i)
                                       \o numeral
                                       \o SubSeq(line, i + d + 1,
                                                 i + d + 1 + k)
                                       \o SubSeq(text, c + 1, Len(text))
                                /\ timers' = <<c + 1 + i + m + 1 + k>>]_vars
    /\ [][(event.op = "continueNumberedList" /\ event'.type = "timeout") =>
            /\ selectionStart' = Head(timers)
            /\ timers' = <<>>
            /\ text' = text]_vars

\* "2. a" below the line "5. b", with the caret at its end, got "3. " as
\* its next line, and the deferred callback has put the caret after it
C10_Witness ==
    /\ event.type = "timeout"
    /\ event.before.undoStack =
           << <<"5", ".", " ", "b", NL, "2", ".", " ", "a">>, <<>> >>
    /\ text = <<"5", ".", " ", "b", NL, "2", ".", " ", "a", NL,
                "3", ".", " ">>
    /\ selectionStart = 13

\* a numeral one digit longer than the one on the line was inserted
C10_CarryWitness ==
    /\ event.op = "continueNumberedList"
    /\ event.before.text = <<"9", "9", ".", " ", "a">>
    /\ event.caret = 5
    /\ text = <<"9", "9", ".", " ", "a", NL, "1", "0", "0", ".", " ">>
    /\ timers = <<11>>

-----------------------------------------------------------------------------
(* Removal of an empty list item, stated over a keyed session.             *)

\* the marker that starts at offset i + 1 of line and is m characters
\* long: one glyph of - * and the bullet glyph, or digits and a period
IsMarkerAt(line, i, m) ==
    /\ m >= 1
    /\ i + m <= Len(line)
    /\ \/ m = 1 /\ line[i + 1] \in {"-", "*", BulletGlyph}
       \/ /\ m >= 2
          /\ line[i + m] = "."
          /\ \A j \in (i + 1)..(i + m - 1) : line[j] \in
                 {"0", "1", "2", "3", "4", "5", "6", "7", "8", "9"}

\* line is whitespace, a marker and at least minTrail whitespace
\* characters, and nothing else
IsMarkerOnly(line, minTrail) ==
    \E i \in 0..Len(line) : \E m \in 1..Len(line) :
        /\ IsMarkerAt(line, i, m)
        /\ Len(line) - (i + m) >= minTrail
        /\ AllSpaces(SubSeq(line, 1, i))
        /\ AllSpaces(SubSeq(line, i + m + 1, Len(line)))

\* Enter at caret c deletes the line's characters before c, inserts
\* nothing and defers the caret to the line's start, whenever the line has
\* a marker, at least minTrail whitespace characters after it and no content
EnterRemovesMarker(minTrail) ==
    IsPlainEnter(event') =>
        LET c == selectionStart
            s == LineStartOf(text, c)
        IN  IsMarkerOnly(LineOf(text, c), minTrail) =>
                /\ text' = SubSeq(text, 1, s) \o SubSeq(text, c + 1, Len(text))
                /\ timers' = <<s>>

\* the deferred callback of a removal writes the caret it was given
RemovalCaretWritten ==
    (event.op \in {"removeBullet", "removeNumberedItem"}
        /\ event'.type = "timeout") =>
            /\ selectionStart' = Head(timers)
            /\ timers' = <<>>
            /\ text' = text

\* C11 as stated: Enter at caret c on a line whose trimmed content is
\* exactly a list marker (a bullet glyph, or digits and a period) deletes
\* the characters from the start of that line up to c, inserts no newline,
\* and sets the caret to the line's start offset.
C11_MarkerOnlyLineRemoved ==
    [][EnterRemovesMarker(0)]_vars /\ [][RemovalCaretWritten]_vars

\* C11, amended: the same for a line whose marker is followed by at least
\* one whitespace character (the line matches a list pattern).
C11_EmptyItemRemoved ==
    [][EnterRemovesMarker(1)]_vars /\ [][RemovalCaretWritten]_vars

\* "- " with the caret at its end became "" and the deferred callback has
\* put the caret at 0
C11_Witness ==
    /\ event.type = "timeout"
    /\ event.before.text = <<>>
    /\ event.before.undoStack = << <<"-", " ">>, <<>> >>
    /\ text = <<>>
    /\ selectionStart = 0

\* an empty numbered item below another line lost the part of its marker
\* that was before the caret, and the caret is due at the line's start
C11_MidLineWitness ==
    /\ event.op = "removeNumberedItem"
    /\ event.before.text = <<"5", ".", " ", "b", NL, "2", ".", " ">>
    /\ event.caret = 6
    /\ text = <<"5", ".", " ", "b", NL, ".", " ">>
    /\ timers = <<5>>

-----------------------------------------------------------------------------
(* Insertion of a marker at the caret, stated over a keyed session.        *)

\* the last event was the key press of a shortcut: Alt with the letter,
\* in either case
IsShortcut(e, letter, capital) ==
    e.type = "keydown" /\ e.altKey /\ e.key \in {letter, capital}

\* the step inserts token at the caret c, changes no other character and
\* defers the caret to c + |token|
InsertsAtCaret(token) ==
    LET c == selectionStart
    IN  /\ text' = SubSeq(text, 1, c) \o token \o SubSeq(text, c + 1, Len(text))
        /\ timers' = <<c + Len(token)>>

\* C12: insert-marker-at-caret with the caret at c in 0..length(Buffer)
\* makes Buffer = Buffer[0..c) + token + Buffer[c..) and the caret
\* c + length(token), the token being the bullet glyph and one space for
\* the bullet operation and "1. " for the numbered one.
C12_InsertMarkerAtCaret ==
    /\ [][IsShortcut(event', "b", "B") =>
            InsertsAtCaret(<<BulletGlyph, " ">>)]_vars
    /\ [][IsShortcut(event', "n", "N") =>
            InsertsAtCaret(<<"1", ".", " ">>)]_vars
    /\ [][(event.op \in {"insertBulletPoint", "insertNumberedItem"}
            /\ event'.type = "timeout") =>
                /\ selectionStart' = Head(timers)
                /\ timers' = <<>>
                /\ text' = text]_vars

\* "- a" with the caret after the hyphen got the bullet token there, and
\* the deferred callback has put the caret after the token
C12_Witness ==
    /\ event.type = "timeout"
    /\ event.before.undoStack = << <<"-", " ", "a">>, <<>> >>
    /\ text = <<"-", BulletGlyph, " ", " ", "a">>
    /\ selectionStart = 3

\* "5. b" and an empty second line, the caret at the very end, got "1. "
\* appended
C12_NumberedWitness ==
    /\ event.type = "timeout"
    /\ event.before.undoStack = << <<"5", ".", " ", "b", NL>>, <<>> >>
    /\ text = <<"5", ".", " ", "b", NL, "1", ".", " ">>
    /\ selectionStart = 8

-----------------------------------------------------------------------------
(* The scrambled overlay.  scrambleText draws a fresh character for every  *)
(* content character, so an invocation has a set of possible outputs.      *)

\* the characters with char codes 32..127 ("u0060" stands for the grave
\* accent U+0060 and "u007f" for U+007F)
AsciiTable ==
    <<
       " ", "!", "\"", "#", "$", "%", "&", "'",
       "(", ")", "*", "+", ",", "-", ".", "/",
       "0", "1", "2", "3", "4", "5", "6", "7",
       "8", "9", ":", ";", "<", "=", ">", "?",
       "@", "A", "B", "C", "D", "E", "F", "G",
       "H", "I", "J", "K", "L", "M", "N", "O",
       "P", "Q", "R", "S", "T", "U", "V", "W",
       "X", "Y", "Z", "[", "\\", "]", "^", "_",
       "u0060", "a", "b", "c", "d", "e", "f", "g",
       "h", "i", "j", "k", "l", "m", "n", "o",
       "p", "q", "r", "s", "t", "u", "v", "w",
       "x", "y", "z", "{", "|", "}", "~", "u007f" >>

\* String.fromCharCode(n), for n in 32..127
FromCharCode(n) == AsciiTable[n - 31]

\* the character class tested by the callback of map: \s, hyphen,
\* asterisk, the bullet glyph, \d, period, parentheses, brackets, braces
IsStructural(char) ==
    \/ IsSpace(char)
    \/ IsBulletGlyph(char)
    \/ IsDigit(char)
    \/ char \in {".", "(", ")", "[", "]", "{", "}"}

\* Math.floor(Math.random() * n): Math.random() is any number in [0, 1)
MathRandomFloor(n) == 0..(n - 1)

\* mutant of ScrambledCharCodes: the range starts at the space character
ScrambledCharCodesFromSpace ==
    {k + 32 : k \in MathRandomFloor(126 - 32 + 1)}

\* Math.floor(Math.random() * (126 - 33 + 1)) + 33
ScrambledCharCodes ==
    {k + 33 : k \in MathRandomFloor(126 - 33 + 1)}

\* mutant of scrambleChar: a tab may come out as a space
scrambleCharLooseTab(char) ==
    IF char = TAB THEN {TAB, " "}
    ELSE IF IsStructural(char) THEN {char}
    ELSE {FromCharCode(n) : n \in ScrambledCharCodes}

\* the callback of map: the characters it may return for char
scrambleChar(char) ==
    IF IsStructural(char) THEN {char}
    ELSE {FromCharCode(n) : n \in ScrambledCharCodes}

\* the strings scrambleText(input) may return
RECURSIVE scrambleText(_)
scrambleText(input) ==
    IF input = <<>> THEN {<<>>}
    ELSE {<<ch>> \o rest : ch \in scrambleChar(Head(input)),
                           rest \in scrambleText(Tail(input))}

\* t.split('\n')
RECURSIVE SplitLines(_)
SplitLines(t) ==
    LET i == IndexOfNewline(t)
    IN  IF i = -1 THEN <<t>>
        ELSE <<Substring(t, 0, i)>> \o SplitLines(SubstringFrom(t, i + 1))

\* the scrambled lines text.split('\n').map(scrambleText) may produce
RECURSIVE ScrambledLines(_)
ScrambledLines(lines) ==
    IF lines = <<>> THEN {<<>>}
    ELSE {<<first>> \o rest : first \in scrambleText(Head(lines)),
                              rest \in ScrambledLines(Tail(lines))}

\* what the overlay may show for Buffer t and Reveal State revealed:
\* {!isRevealed && text && (<div ...>{renderScrambledText()}</div>)}
renderScrambledText(t, revealed) ==
    IF ~revealed /\ t # <<>> THEN ScrambledLines(SplitLines(t)) ELSE {<<>>}

\* Buffers of an overlay session
ScrambleTexts ==
    { <<>>,
      <<"a">>,
      <<NL>>,
      <<"-", " ", "g", "o">>,
      <<TAB, "a", NL, TAB, "a">>,
      <<"1", ".", " ", "(", "a", ")", " ", "[", "b", "]">>,
      <<"{", "x", "}", NL, "+", TAB, "9">>,
      <<"-", "*", BulletGlyph, " ", TAB, "0", ".", "9", "(", ")",
        "[", "]", "{", "}">> }

\* an overlay session: the Buffer is one of ScrambleTexts, hidden, and the
\* overlay has been rendered for it
OverlayInit ==
    /\ text \in ScrambleTexts
    /\ isRevealed = FALSE
    /\ undoStack = << <<>> >>
    /\ redoStack = <<>>
    /\ selectionStart = Len(text)
    /\ timers = <<>>
    /\ event = [type |-> "change", key |-> "", altKey |-> FALSE,
                shiftKey |-> FALSE, op |-> "handleTextChange", caret |-> -1,
                value |-> text,
                before |-> [text |-> <<>>, undoStack |-> <<>>,
                            redoStack |-> <<>>],
                after |-> ""]
    /\ script = <<>>
    /\ undos = 0
    /\ overlay \in renderScrambledText(text, isRevealed)
    /\ surface = text

\* the reveal button, and the render that follows the state change
OverlayToggle ==
    /\ isRevealed' = ~isRevealed
    /\ overlay' \in renderScrambledText(text, ~isRevealed)
    /\ event' = Click("reveal", "setIsRevealed", -1)
    /\ UNCHANGED <<text, undoStack, redoStack, selectionStart, timers,
                   script, undos,
                   surface>>

\* a key press that reaches the window listener, and the render that
\* follows a state change
OverlayKeyDown ==
    \E e \in KeyEvents :
        /\ KeyBranch(e.key, e.altKey, e.shiftKey, selectionStart) = "none"
        /\ handleGlobalKeyDown(e.key, e.altKey)
        /\ overlay' \in
             IF isRevealed' = isRevealed THEN {overlay}
             ELSE renderScrambledText(text, isRevealed')
        /\ event' = Ev("keydown", e.key, e.altKey, e.shiftKey, "none", -1)
        /\ UNCHANGED <<text, undoStack, redoStack, selectionStart, timers,
                       script, undos,
                   surface>>

OverlayNext == OverlayToggle \/ OverlayKeyDown

SpecOverlay == OverlayInit /\ [][OverlayNext]_vars

-----------------------------------------------------------------------------
(* Properties of the obfuscation transform, stated over an overlay         *)
(* session: while the Buffer is hidden and not empty, overlay[i] is the    *)
(* output of one invocation of the transform on line i of the Buffer.      *)

\* whitespace, digits, period, parentheses, brackets, braces, hyphen,
\* asterisk and the bullet glyph
StructuralChars ==
    {" ", TAB, NL, "0", "1", "2", "3", "4", "5", "6", "7", "8", "9",
     ".", "(", ")", "[", "]", "{", "}", "-", "*", BulletGlyph}

\* the overlay is on screen
OverlayOn == ~isRevealed /\ text # <<>>

\* out is an output the claim allows for the input line in
IsScrambleOf(out, in) ==
    /\ Len(out) = Len(in)
    /\ \A j \in 1..Len(in) :
          IF in[j] \in StructuralChars
          THEN out[j] = in[j]
          ELSE \E n \in 33..126 : out[j] = FromCharCode(n)

\* C13: for every input line, every possible output of the obfuscation
\* transform has the length of the input, equals the input at every
\* position holding a structural character, and holds a character with
\* char code in 33..126 at every position holding a content character.
C13_ScramblePreservesStructure ==
    OverlayOn =>
        LET lines == SplitLines(text)
        IN  /\ Len(overlay) = Len(lines)
            /\ \A i \in 1..Len(lines) : IsScrambleOf(overlay[i], lines[i])

\* after hiding the Buffer again, "- go" is shown as "- " followed by
\* the first and the last character of the range
C13_Witness ==
    /\ OverlayOn
    /\ event.type = "click"
    /\ text = <<"-", " ", "g", "o">>
    /\ overlay = << <<"-", " ", "!", "~">> >>

\* a content character may be shown as itself or as a structural one
C13_LookalikeWitness ==
    /\ OverlayOn
    /\ text = <<"-", " ", "g", "o">>
    /\ overlay = << <<"-", " ", "g", "-">> >>

-----------------------------------------------------------------------------
(* Reveal State, Copy and Save, stated over a free editing session.        *)

\* the step leaves the Buffer and both stacks as they are
HistoryKept ==
    /\ text' = text
    /\ undoStack' = undoStack
    /\ redoStack' = redoStack

\* the step handled a click of the reveal button or the key press Alt+H
IsRevealToggle(e) ==
    \/ e.type = "click" /\ e.key = "reveal"
    \/ e.type = "keydown" /\ e.altKey /\ e.key \in {"h", "H"}

\* the step handled a typed change, a list edit, undo(), redo() or clear()
IsHistoryEvent(e) ==
    \/ e.type = "change"
    \/ e.type = "click"
         /\ e.key \in {"undo", "redo", "clear", "bullet", "numbered"}
    \/ e.type = "keydown" /\ e.op \in ListEditOps

\* C14: toggling Reveal State (button or Alt+H) leaves Buffer, Undo Stack
\* and Redo Stack unchanged and pushes no snapshot, and no typed change,
\* list edit, undo(), redo() or clear() changes Reveal State.
C14_RevealOrthogonal ==
    /\ [][IsRevealToggle(event') =>
            (isRevealed' = ~isRevealed /\ HistoryKept)]_vars
    /\ [][IsHistoryEvent(event') => isRevealed' = isRevealed]_vars

\* the Buffer was revealed by Alt+H with a snapshot on each stack, and
\* the history is what the undo() before it left
C14_Witness ==
    /\ event.type = "keydown"
    /\ event.key = "h"
    /\ isRevealed
    /\ undoStack # <<>>
    /\ redoStack # <<>>
    /\ event.before = History

\* a list edit was made while the Buffer was revealed
C14_EditWitness ==
    /\ event.op \in ListEditOps
    /\ isRevealed
    /\ text # event.before.text

\* the step handled a click of the copy button or of the save button
IsExport(e) == e.type = "click" /\ e.key \in {"copy", "save"}

\* C15: Copy, whether the clipboard write succeeds or fails, and Save
\* leave Buffer, Undo Stack and Redo Stack exactly as they were; a failed
\* clipboard write changes nothing else either, and every operation stays
\* available after it.
C15_ExportReadOnly ==
    /\ [][IsExport(event') =>
            /\ HistoryKept
            /\ isRevealed' = isRevealed
            /\ selectionStart' = selectionStart
            /\ timers' = timers]_vars
    /\ [][(event.op = "rejected" /\ event'.type = "change") =>
            /\ text' = event'.value
            /\ undoStack' = <<text>> \o undoStack
            /\ redoStack' = <<>>]_vars

\* a clipboard write failed with a Buffer and both stacks non-empty
C15_Witness ==
    /\ event.type = "click"
    /\ event.key = "copy"
    /\ event.op = "rejected"
    /\ text # <<>>
    /\ undoStack # <<>>
    /\ redoStack # <<>>
    /\ event.before = History

-----------------------------------------------------------------------------
(* A surface session: a free editing session in which the handler of an    *)
(* event and the render that follows it are separate steps of one task.    *)
(* Between the two the textarea still shows the Buffer of the last render. *)
(* A task runs to completion: no other event and no timer callback is      *)
(* handled before the render of the task has been applied.                 *)

\* no state update awaits its render
TaskDone == surface = text

\* a list edit finds room for one more snapshot and one more callback
CanEditSurface ==
    /\ TaskDone
    /\ Len(undoStack) + Len(redoStack) < MaxHist
    /\ Len(timers) < MaxTimers

\* onChange={handleTextChange}: the textarea already shows the value
SurfaceChange ==
    \E value \in TypedValues :
        /\ TaskDone
        /\ Len(undoStack) < MaxHist
        /\ handleTextChange(value)
        /\ Typed(value)
        /\ event' = ChangeEv(value)
        /\ UNCHANGED <<isRevealed, timers, script, undos, overlay>>

\* onClick={handleClear}, up to its state updates
SurfaceClear ==
    /\ TaskDone
    /\ handleClear
    /\ event' = Click("clear", "handleClear", -1)
    /\ UNCHANGED <<isRevealed, timers, selectionStart, surface, script,
                   undos, overlay>>

\* mutant of SurfaceListEdit: the handler also writes the caret itself,
\* at once
SurfaceListEditWritesCaret ==
    \E e \in KeyEvents :
        \E cursorPosition \in Carets(text) :
            /\ CanEditSurface
            /\ KeyBranch(e.key, e.altKey, e.shiftKey, cursorPosition)
                   # "none"
            /\ handleKeyDown(e.key, e.altKey, e.shiftKey, cursorPosition)
            /\ selectionStart' = timers'[Len(timers')]
            /\ event' = Ev("keydown", e.key, e.altKey, e.shiftKey,
                           KeyBranch(e.key, e.altKey, e.shiftKey,
                                     cursorPosition),
                           cursorPosition)
            /\ UNCHANGED <<isRevealed, surface, script, undos, overlay>>

\* onKeyDown={handleKeyDown} for a key press that edits a list, up to its
\* state updates and its setTimeout
SurfaceListEdit ==
    \E e \in KeyEvents :
        \E cursorPosition \in Carets(text) :
            /\ CanEditSurface
            /\ KeyBranch(e.key, e.altKey, e.shiftKey, cursorPosition)
                   # "none"
            /\ handleKeyDown(e.key, e.altKey, e.shiftKey, cursorPosition)
            /\ event' = Ev("keydown", e.key, e.altKey, e.shiftKey,
                           KeyBranch(e.key, e.altKey, e.shiftKey,
                                     cursorPosition),
                           cursorPosition)
            /\ UNCHANGED <<isRevealed, selectionStart, surface, script,
                           undos, overlay>>

\* onClick={insertBulletPoint} and onClick={insertNumberedItem}, up to
\* their state updates and their setTimeout
SurfaceClick ==
    \E cursorPosition \in Carets(text) :
        /\ CanEditSurface
        /\ \/ /\ insertBulletPoint(cursorPosition)
              /\ event' = Click("bullet", "insertBulletPoint",
                                cursorPosition)
           \/ /\ insertNumberedItem(cursorPosition)
              /\ event' = Click("numbered", "insertNumberedItem",
                                cursorPosition)
        /\ UNCHANGED <<isRevealed, selectionStart, surface, script, undos,
                       overlay>>

\* the render that ends the task of a handler
SurfaceRender ==
    /\ ~TaskDone
    /\ UNCHANGED <<text, isRevealed, undoStack, redoStack, timers, script,
                   undos, overlay>>
    /\ FlushSync
    /\ event' = Ev("render", "", FALSE, FALSE, "render", -1)

\* the oldest pending setTimeout callback runs, in a task of its own
SurfaceTimer ==
    /\ TaskDone
    /\ RunTimer

SurfaceNext ==
    \/ SurfaceChange
    \/ SurfaceClear
    \/ SurfaceListEdit
    \/ SurfaceClick
    \/ SurfaceRender
    \/ SurfaceTimer

SpecSurface == Init /\ [][SurfaceNext]_vars

-----------------------------------------------------------------------------
(* Ordering of the Buffer update and the deferred caret write, stated over *)
(* a surface session.                                                      *)

\* the step handled a key press or a click that edited a list
IsListEdit(e) == e.type \in {"keydown", "click"} /\ e.op \in ListEditOps

\* C16: the deferred caret write of a structural list edit happens
\* strictly after that edit's Buffer update has been applied to the
\* editing surface.  The handler of the edit writes no caret itself and
\* queues exactly one write, of an offset inside the new Buffer; a Buffer
\* the surface does not yet show is applied before anything else happens,
\* with the queue as it was; and a queued write runs only while the
\* surface shows the Buffer, leaving both alone.
C16_CaretWriteAfterBuffer ==
    /\ [][IsListEdit(event') =>
            /\ selectionStart' = selectionStart
            /\ surface' = surface
            /\ \E k \in 0..Len(text') : timers' = Append(timers, k)]_vars
    /\ [][surface # text =>
            /\ surface' = text
            /\ text' = text
            /\ timers' = timers]_vars
    /\ [][event'.type = "timeout" =>
            /\ surface = text
            /\ timers # <<>>
            /\ selectionStart' = Min(Head(timers), Len(surface))
            /\ timers' = Tail(timers)
            /\ surface' = surface
            /\ text' = text]_vars

\* two list edits were made, each applied to the surface, before the
\* caret write of the first ran; the write of the second is still queued
C16_Witness ==
    /\ event.type = "timeout"
    /\ surface = text
    /\ undoStack = << <<BulletGlyph, " ">>, <<>> >>
    /\ text = <<BulletGlyph, " ", "1", ".", " ">>
    /\ selectionStart = 2
    /\ timers = <<5>>

\* a list edit has been handled and the surface does not show it yet
C16_PendingWitness ==
    /\ IsListEdit(event)
    /\ surface # text
    /\ timers # <<>>

-----------------------------------------------------------------------------
(* Lines that get no list treatment, stated over a keyed session.          *)

\* line matches the bullet pattern or the numbered pattern
IsListLine(line) ==
    \/ \E i \in 0..Len(line) : \E k \in 1..Len(line) :
          IsBulletLine(line, i, k)
    \/ \E i \in 0..Len(line) : \E d \in 1..Len(line) :
          \E k \in 1..Len(line) : IsNumberedLine(line, i, d, k)

\* C17: Enter gets list treatment only on the basis of the line holding
\* the caret and only for the glyphs - * and the bullet glyph or digits
\* and a period: when that line matches neither pattern, whatever the
\* other lines hold, or Shift is held, the key handler changes none of
\* Buffer, Undo Stack, Redo Stack.
C17_OnlyListLinesTreated ==
    [][(event'.type = "keydown" /\ event'.key = "Enter"
          /\ (event'.shiftKey \/ ~IsListLine(LineOf(text, selectionStart))))
        => (HistoryKept /\ timers' = timers)]_vars

\* Enter was pressed at the end of the line "+ a", which has a numbered
\* line above it and a bullet line below it, and nothing changed
C17_Witness ==
    /\ event.type = "keydown"
    /\ event.key = "Enter"
    /\ ~event.shiftKey
    /\ event.caret = 8
    /\ text = <<"5", ".", " ", "b", NL, "+", " ", "a", NL, "-", " ", "c">>
    /\ event.before = History
    /\ timers = <<>>

\* Shift+Enter was pressed on the bullet line "- a" and nothing changed
C17_ShiftWitness ==
    /\ event.type = "keydown"
    /\ event.key = "Enter"
    /\ event.shiftKey
    /\ text = <<"-", " ", "a">>
    /\ selectionStart = 3
    /\ event.before = History

-----------------------------------------------------------------------------
(* Repeated invocations of the obfuscation transform.  One render invokes  *)
(* the transform once per line, so two equal lines of the Buffer show the  *)
(* outputs of two invocations on the same input.                           *)

\* lines i and j of the Buffer are the same line, with a content character
SameContentLines(lines, i, j) ==
    /\ i # j
    /\ lines[i] = lines[j]
    /\ \E p \in 1..Len(lines[i]) : lines[i][p] \notin StructuralChars

\* C18 as stated: two invocations of the obfuscation transform on the
\* same line containing at least one content character yield different
\* outputs.
C18_InvocationsDiffer ==
    OverlayOn =>
        LET lines == SplitLines(text)
        IN  \A i \in 1..Len(lines) : \A j \in 1..Len(lines) :
                SameContentLines(lines, i, j) => overlay[i] # overlay[j]

\* C18, amended: two invocations on the same line have outputs of the
\* same length that agree at every structural position; at the content
\* positions each is drawn on its own (so the two may differ, or be equal).
C18_InvocationsAgreeOnStructure ==
    OverlayOn =>
        LET lines == SplitLines(text)
        IN  \A i \in 1..Len(lines) : \A j \in 1..Len(lines) :
                SameContentLines(lines, i, j) =>
                    /\ Len(overlay[i]) = Len(overlay[j])
                    /\ \A p \in 1..Len(lines[i]) :
                          lines[i][p] \in StructuralChars =>
                              overlay[i][p] = overlay[j][p]

\* after hiding the Buffer again, the two invocations on the line
\* tab + "a" gave different outputs
C18_Witness ==
    /\ OverlayOn
    /\ event.type = "click"
    /\ text = <<TAB, "a", NL, TAB, "a">>
    /\ overlay = << <<TAB, "!">>, <<TAB, "~">> >>

-----------------------------------------------------------------------------
(* Leaving a list by Enter on an empty item, stated over a keyed session.  *)

\* C19 as stated: Enter on an empty list item exits the list for every
\* caret position within that line: after the operation the line holding
\* the caret matches neither the bullet pattern nor the numbered pattern.
C19_EmptyItemExitsList ==
    [][(IsPlainEnter(event')
          /\ IsMarkerOnly(LineOf(text, selectionStart), 1))
        => /\ timers' # <<>>
           /\ Head(timers') <= Len(text')
           /\ ~IsListLine(LineOf(text', Head(timers')))]_vars

\* Enter was pressed on the empty item "- " with the caret at its start:
\* the Buffer is still "- "
C19_StuckWitness ==
    /\ event.op = "removeBullet"
    /\ event.caret = 0
    /\ event.before.text = <<"-", " ">>
    /\ text = <<"-", " ">>
    /\ timers = <<0>>

-----------------------------------------------------------------------------
(* The oldest state of the history, stated over a free editing session.    *)

\* C20: in every reachable state, if the Undo Stack is empty then Buffer
\* is empty, and if the Undo Stack is non-empty its oldest (bottom)
\* snapshot is the empty string.
C20_OldestSnapshotEmpty ==
    /\ undoStack = <<>> => text = <<>>
    /\ undoStack # <<>> => undoStack[Len(undoStack)] = <<>>

\* undo() has emptied the Undo Stack of an edited Buffer: Buffer is empty
\* and the Redo Stack holds what was undone
C20_Witness ==
    /\ event.op = "handleUndo"
    /\ event.before.text # <<>>
    /\ Len(event.before.undoStack) = 1
    /\ undoStack = <<>>
    /\ text = <<>>
    /\ redoStack # <<>>

\* two snapshots are on the Undo Stack, the newer one not empty
C20_DeepWitness ==
    /\ Len(undoStack) = 2
    /\ undoStack[1] # <<>>
    /\ undoStack[2] = <<>>
    /\ text # <<>>

-----------------------------------------------------------------------------
(* The history timeline, stated over a free editing session.               *)

\* the Undo Stack read oldest to newest, then Buffer, then the Redo Stack
\* read top to bottom
Timeline(h) == Reverse(h.undoStack) \o <<h.text>> \o h.redoStack

\* the step handled a click of the undo button or of the redo button
IsUndoOrRedo(e) == e.type = "click" /\ e.key \in {"undo", "redo"}

\* C21: undo() and redo() preserve the history timeline, so
\* depth(Undo) + depth(Redo) never changes under them, and redo()
\* followed immediately by undo() restores the exact prior state whenever
\* the Redo Stack was non-empty.
C21_TimelinePreserved ==
    /\ [][IsUndoOrRedo(event') =>
            /\ Timeline([text |-> text', undoStack |-> undoStack',
                         redoStack |-> redoStack']) = Timeline(History)
            /\ Len(undoStack') + Len(redoStack')
                 = Len(undoStack) + Len(redoStack)]_vars
    /\ [][(/\ event.type = "click"
           /\ event.key = "redo"
           /\ event.before.redoStack # <<>>
           /\ event'.type = "click"
           /\ event'.key = "undo")
          => /\ text' = event.before.text
             /\ undoStack' = event.before.undoStack
             /\ redoStack' = event.before.redoStack]_vars

\* redo() moved the middle of a timeline of three: one snapshot was on
\* each stack before and the Undo Stack holds both after
C21_Witness ==
    /\ event.type = "click"
    /\ event.key = "redo"
    /\ Len(event.before.undoStack) = 1
    /\ Len(event.before.redoStack) = 1
    /\ Len(undoStack) = 2
    /\ redoStack = <<>>
    /\ undoStack[1] = event.before.text
    /\ text = event.before.redoStack[1]

-----------------------------------------------------------------------------
(* A free editing session in which every typed change delivers a value     *)
(* other than the current Buffer.                                          *)

\* onChange={handleTextChange}, for an edit that changed the value
DistinctChange ==
    \E value \in TypedValues :
        /\ value # text
        /\ Len(undoStack) < MaxHist
        /\ handleTextChange(value)
        /\ Typed(value)
        /\ event' = ChangeEv(value)
        /\ UNCHANGED <<isRevealed, timers, script, undos, overlay>>

DistinctNext ==
    \/ DistinctChange
    \/ Undo
    \/ Redo
    \/ Clear
    \/ ClickBullet
    \/ ClickNumbered
    \/ KeyDown
    \/ ToggleReveal
    \/ Copy
    \/ Save
    \/ RunTimer

SpecDistinct == Init /\ [][DistinctNext]_vars

\* C22 as stated: when typed changes always deliver a value different
\* from the current Buffer, in every reachable state the top snapshot of
\* a non-empty Undo Stack differs from Buffer (no operation records a
\* snapshot while leaving Buffer unchanged).
C22_NoEmptyStep ==
    undoStack # <<>> => undoStack[1] # text

\* Enter on the empty item the bullet button made, with the caret at the
\* start of the line, pushed a snapshot equal to the Buffer
C22_EmptyStepWitness ==
    /\ event.op = "removeBullet"
    /\ event.caret = 0
    /\ text = <<BulletGlyph, " ">>
    /\ undoStack = << <<BulletGlyph, " ">>, <<>> >>

-----------------------------------------------------------------------------
(* The offset a deferred caret callback writes, stated over a free         *)
(* editing session, in which other events may be handled between a list    *)
(* edit and its callback.                                                  *)

\* C23 as stated: whenever a deferred caret callback scheduled by a list
\* edit runs, the offset it writes lies in 0..length(Buffer) for the
\* Buffer current at that moment, even if another event is processed
\* between the edit and its callback.
C23_DeferredOffsetInBuffer ==
    [][event'.type = "timeout" =>
          (Head(timers) >= 0 /\ Head(timers) <= Len(text))]_vars

\* the callback of a bullet insertion is still pending, with offset 2,
\* and undo() has emptied the Buffer in the meantime
C23_StaleOffsetWitness ==
    /\ event.op = "handleUndo"
    /\ event.after = "insertBulletPoint"
    /\ text = <<>>
    /\ timers = <<2>>

-----------------------------------------------------------------------------
(* A button session: a free editing session in which a button that is      *)
(* rendered disabled receives no click.                                    *)

\* disabled={undoStack.length === 0}
UndoDisabled == Len(undoStack) = 0

\* disabled={redoStack.length === 0}
RedoDisabled == Len(redoStack) = 0

\* disabled={!text}
ClearDisabled == text = <<>>

ButtonUndo == ~UndoDisabled /\ Undo

ButtonRedo == ~RedoDisabled /\ Redo

ButtonClear == ~ClearDisabled /\ Clear

ButtonNext ==
    \/ Change
    \/ ButtonUndo
    \/ ButtonRedo
    \/ ButtonClear
    \/ ClickBullet
    \/ ClickNumbered
    \/ KeyDown
    \/ ToggleReveal
    \/ Copy
    \/ Save
    \/ RunTimer

SpecButtons == Init /\ [][ButtonNext]_vars

\* C24 as stated: in every reachable state in which the Undo Stack or the
\* Redo Stack is non-empty, the Clear action is enabled.
C24_ClearAlwaysEnabled ==
    (undoStack # <<>> \/ redoStack # <<>>) => ENABLED ButtonClear

\* undo() has emptied the Buffer and left a snapshot on the Redo Stack:
\* the Clear button is disabled while there is history to discard
C24_DisabledWitness ==
    /\ event.type = "click"
    /\ event.key = "undo"
    /\ text = <<>>
    /\ redoStack # <<>>
    /\ ClearDisabled

-----------------------------------------------------------------------------
(* What a continuation leaves above the caret, stated over a keyed         *)
(* session.                                                                *)

\* line begins with prefix
StartsWith(line, prefix) ==
    /\ Len(prefix) <= Len(line)
    /\ SubSeq(line, 1, Len(prefix)) = prefix

\* line matches the bullet pattern
MatchesBullet(line) ==
    \E i \in 0..Len(line) : \E k \in 1..Len(line) : IsBulletLine(line, i, k)

\* line matches the numbered pattern
MatchesNumbered(line) ==
    \E i \in 0..Len(line) : \E d \in 1..Len(line) : \E k \in 1..Len(line) :
        IsNumberedLine(line, i, d, k)

\* C25: when Enter continues a list from caret c on a bullet or numbered
\* line that is not an empty item, the line holding the scheduled caret
\* offset begins with the indent and the inserted marker, and the line
\* just above it, the original item, still matches the pattern the line
\* matched before the key press.
C25_ContinuationKeepsItem ==
    [][IsPlainEnter(event') =>
         LET c == selectionStart
             line == LineOf(text, c)
         IN  /\ \A i \in 0..Len(line) : \A k \in 1..Len(line) :
                  (IsBulletLine(line, i, k) /\ i + 1 + k < Len(line)) =>
                      /\ timers' # <<>>
                      /\ StartsWith(LineOf(text', Head(timers')),
                                    SubSeq(line, 1, i + 1 + k))
                      /\ MatchesBullet(LineOf(text', c))
             /\ \A i \in 0..Len(line) : \A d \in 1..Len(line) :
                  \A k \in 1..Len(line) :
                  (IsNumberedLine(line, i, d, k)
                     /\ i + d + 1 + k < Len(line)) =>
                      /\ timers' # <<>>
                      /\ StartsWith(LineOf(text', Head(timers')),
                                    SubSeq(line, 1, i))
                      /\ MatchesNumbered(LineOf(text', Head(timers')))
                      /\ MatchesNumbered(LineOf(text', c))]_vars

\* Enter with the caret inside the marker of a bullet item has split the
\* marker: the line above the new one is a bare glyph, no longer an item
C25_SplitMarkerWitness ==
    /\ IsPlainEnter(event)
    /\ event.op = "continueBulletList"
    /\ ~MatchesBullet(LineOf(text, event.caret))
    /\ MatchesBullet(LineOf(event.before.text, event.caret))

=============================================================================
